---- MODULE Spec2Model ----
(***************************************************************************)
(* Authentication flow of Full Fuel TV: authController (register, login,   *)
(* googleLogin, registerWithGoogle, getCurrentUser) over the user store.   *)
(*                                                                         *)
(* Strings that the code splits (emails, usernames derived from them) are  *)
(* sequences of one-character strings; the empty sequence is the empty     *)
(* string.  Other strings are TLA+ strings, "" being the empty (falsy)     *)
(* one.  Every request handler is an async function: it is cut into one    *)
(* action per stretch of code between two awaits on the user store.        *)
(***************************************************************************)
EXTENDS Integers, Sequences, FiniteSets, TLC

\* ------------------------------------------------------------------ bounds
MaxTime  == 8        \* the clock runs over 0..MaxTime (days)
MaxSalt  == 1        \* bcrypt salts are drawn from 1..MaxSalt
MaxItems == 1        \* the content store holds at most MaxItems items
MaxLines == 3        \* the cart holds at most MaxLines lines
MaxBatch == 2        \* at most MaxBatch cart calls between two runs of the cart effect

\* ------------------------------------------------------- program constants
ExpiresInDays == 7   \* jwt.sign(..., { expiresIn: '7d' })
SaltRounds    == 10  \* bcrypt.genSalt(10), bcrypt.hash(x, 10)
JWT_SECRET    == "full-fuel-jwt-secret"

Clients == {"c1", "c2"}   \* connections; each carries one request at a time
Salts   == 1..MaxSalt

\* ------------------------------------------------------------ input values
At == "@"
EmailAX == <<"a", At, "x">>
EmailAY == <<"a", At, "y">>
EmailBX == <<"b", At, "x">>
Emails  == {EmailAX, EmailAY, EmailBX}
Empty   == <<>>

Null      == [null |-> TRUE]          \* JS null / undefined object
Undefined == [undefined |-> TRUE]     \* JS undefined in a field

Min(S) == CHOOSE x \in S : \A y \in S : x <= y

\* faulty variant: the part before the last '@'
LocalPart_LastAt(email) ==
    LET ats == {i \in 1..Len(email) : email[i] = At}
    IN  IF ats = {} THEN email
        ELSE SubSeq(email, 1, (CHOOSE x \in ats : \A y \in ats : x >= y) - 1)

\* email.split('@')[0]
LocalPart(email) ==
    LET ats == {i \in 1..Len(email) : email[i] = At}
    IN  IF ats = {} THEN email ELSE SubSeq(email, 1, Min(ats) - 1)

\* ------------------------------------------------------------------ bcrypt
\* A digest embeds its salt and cost; it is the digest of exactly one
\* plaintext under that salt.
BcryptHash(plain, salt) == [salt |-> salt, cost |-> SaltRounds, of |-> plain]

\* faulty variant: the password is hashed anew, under a fresh salt, and the digests compared
BcryptCompare_FreshSalt(plain, digest) == BcryptHash(plain, digest.salt + 1) = digest

\* bcrypt.compare recomputes the digest with the salt found in the digest.
BcryptCompare(plain, digest) == BcryptHash(plain, digest.salt) = digest

\* ---------------------------------------------------------------- jwt codec
NoToken      == [fmt |-> "none",    payload |-> Null, sig |-> Null]
EmptyToken   == [fmt |-> "empty",   payload |-> Null, sig |-> Null]
GarbageToken == [fmt |-> "garbage", payload |-> Null, sig |-> Null]

Hmac(payload, secret) == [key |-> secret, over |-> payload]

\* faulty variant: the payload signed is not the payload sent
JwtSign_SignsClaimsOnly(claims, secret, t) ==
    LET payload == [id |-> claims.id, name |-> claims.name, email |-> claims.email,
                    iat |-> t, exp |-> t + ExpiresInDays]
    IN  [fmt |-> "jwt", payload |-> payload, sig |-> Hmac(claims, secret)]

\* jwt.sign(claims, secret, {expiresIn: '7d'}) at clock value t
JwtSign(claims, secret, t) ==
    LET payload == [id |-> claims.id, name |-> claims.name, email |-> claims.email,
                    iat |-> t, exp |-> t + ExpiresInDays]
    IN  [fmt |-> "jwt", payload |-> payload, sig |-> Hmac(payload, secret)]

\* faulty variant: the signature is checked against the key named in it
JwtVerifies_AnyKey(token, secret, t) ==
    /\ token.fmt = "jwt"
    /\ token.sig = Hmac(token.payload, token.sig.key)
    /\ t < token.payload.exp

\* faulty variant: expiry is not checked (ignoreExpiration)
JwtVerifies_IgnoresExpiry(token, secret, t) ==
    /\ token.fmt = "jwt"
    /\ token.sig = Hmac(token.payload, secret)

\* jwt.verify(token, secret) at clock value t: TRUE when it returns the
\* payload, FALSE when it throws (malformed, bad signature, expired).
JwtVerifies(token, secret, t) ==
    /\ token.fmt = "jwt"
    /\ token.sig = Hmac(token.payload, secret)
    /\ t < token.payload.exp

JwtDecoded(token) == token.payload

\* -------------------------------------------------------------- user store
VARIABLES users,     \* the users collection: a sequence of records, id = position
          origin     \* history: for each record, the handler and secret that made it

\* storage.getUserByEmail / getUserByUsername / getUser
FindBy(field, value) ==
    LET hit == {i \in 1..Len(users) : users[i][field] = value}
    IN  IF hit = {} THEN Null ELSE users[Min(hit)]

GetUserByEmail(email)       == FindBy("email", email)
GetUserByUsername(username) == FindBy("username", username)
GetUser(id)                 == FindBy("id", id)

\* faulty variant: the email index is not unique
EmailIndexAdmits_NotUnique(doc) == TRUE

\* UserSchema: email is a unique index
EmailIndexAdmits(doc) == \A i \in 1..Len(users) : users[i].email # doc.email

\* faulty variant: the username index is not unique
UsernameIndexAdmits_NotUnique(doc) == TRUE

\* UserSchema: username is a unique, sparse index
UsernameIndexAdmits(doc) ==
    doc.username = Empty \/ \A i \in 1..Len(users) : users[i].username # doc.username

\* storage.createUser(doc) resolves (TRUE) or rejects with a duplicate-key error
CreateUserResolves(doc) == EmailIndexAdmits(doc) /\ UsernameIndexAdmits(doc)

\* the document createUser resolves with
Created(doc) ==
    [id |-> Len(users) + 1, name |-> doc.name, email |-> doc.email,
     username |-> doc.username, password |-> doc.password, role |-> doc.role]

\* ------------------------------------------------------ requests in flight
VARIABLES now,       \* the clock, in days
          pc,        \* pc[p]: where request p stands in its handler
          req,       \* req[p]: the request (body and Authorization header)
          resp,      \* resp[p]: the response sent, once pc[p] = "done"
          hist       \* hist[p]: history of request p (not program state)

\* ------------------------------------------------------------ content store
VARIABLES content    \* content[kind]: the items of that kind, each [id, body]

site == <<content>>

Kinds == {"videos", "events", "mixes", "gallery"}

InitSite == content = [k \in Kinds |-> {}]

\* ------------------------------------------- CartProvider (in the browser)
VARIABLES cart,          \* useState<CartItem[]>: the cart lines
          isCartOpen,    \* useState(false)
          cartTotal,     \* useState(0)
          cartCount,     \* useState(0)
          localStorage,  \* the 'cart' entry of localStorage
          mounted,       \* the provider has rendered and run its mount effects
          pending,       \* the number of times cart was set since the effect on [cart] last ran
          lastCall       \* history: the last cart function called (not program state)

shop == <<cart, isCartOpen, cartTotal, cartCount, localStorage, mounted, pending, lastCall>>

NoEntry == [entry |-> "none", lines |-> <<>>]     \* getItem('cart') returns null
NoCall  == [fn |-> "none", productId |-> "", quantity |-> 0, turn |-> 0]

\* the provider before its first render, in a browser that has no saved cart
InitShop ==
    /\ cart = <<>> /\ isCartOpen = FALSE /\ cartTotal = 0 /\ cartCount = 0
    /\ localStorage = NoEntry
    /\ mounted = FALSE /\ pending = 0
    /\ lastCall = NoCall

vars == <<users, origin, now, pc, req, resp, hist, site, shop>>

NoResp == [status |-> 0, error |-> "", token |-> NoToken, user |-> Null]
NoReq  == [op |-> "none", name |-> "", email |-> Empty, password |-> "",
           username |-> Empty, idToken |-> Null, auth |-> <<>>]

\* hist[p].pre    : a record with the request's email was stored when it arrived
\* hist[p].prev   : the call the same client made just before this one, when it
\*                  was the same operation on the same email with every required
\*                  field and no other client has called: "ok" (it succeeded)
\*                  or "err"; "none" otherwise
\* hist[p].prevId : the user id that call returned (0 if none)
\* hist[p].prevPre: that call's pre
\* hist[p].race   : another client's call of the same operation on the same
\*                  email was in flight together with this one
\* hist[p].made   : number of records this request inserted
\* hist[p].path   : "verified" / "fallback" once a Google assertion was read
\* hist[p].at     : the clock when the request arrived
\* hist[p].calls  : the calls the request awaited or made so far, in order, each
\*                  with its outcome (ok: it resolved / returned; ~ok: it
\*                  rejected / threw); "catch (verifyError)" marks the entry
\*                  into the fallback block
\* hist[p].saw    : the role of the user that a content request's getUser
\*                  returned ("none" when it returned nothing, "" before)
NoHist == [pre |-> FALSE, prev |-> "none", prevId |-> 0, prevPre |-> FALSE,
           race |-> FALSE, made |-> 0, path |-> "", at |-> 0, calls |-> <<>>,
           saw |-> ""]

\* history h, with one more call noted
Logged(h, call, ok) == [h EXCEPT !.calls = Append(@, [call |-> call, ok |-> ok])]

Init ==
    /\ users  = <<>>
    /\ origin = <<>>
    /\ now    = 0
    /\ pc     = [p \in Clients |-> "idle"]
    /\ req    = [p \in Clients |-> NoReq]
    /\ resp   = [p \in Clients |-> NoResp]
    /\ hist   = [p \in Clients |-> NoHist]
    /\ InitSite /\ InitShop

\* faulty variant: the record is returned as stored
WithoutPassword_Keeps(user) == user

\* { ...user, password: undefined }
WithoutPassword(user) == [user EXCEPT !.password = Undefined]

\* res.status(status).json({ error })
Failure(status, error) == [status |-> status, error |-> error, token |-> NoToken, user |-> Null]

\* jwt.sign({id, name, email}, JWT_SECRET, {expiresIn: '7d'}); res.json({token, user})
TokenResponse(user) ==
    [status |-> 200, error |-> "",
     token  |-> JwtSign([id |-> user.id, name |-> user.name, email |-> user.email],
                        JWT_SECRET, now),
     user   |-> WithoutPassword(user)]

Free(p) == pc[p] \in {"idle", "done"}

\* The email a request is about (body email, or the email its assertion carries
\* when the assertion can be read at all).
EmailOf(r) ==
    IF r.op \in {"register", "login"} THEN r.email
    ELSE IF /\ r.op \in {"googleLogin", "registerWithGoogle"}
            /\ r.idToken # Null /\ r.idToken.nparts = 3 /\ r.idToken.body.json
         THEN r.idToken.body.email
    ELSE Empty

\* The request carries every field its handler requires.
Complete(r) ==
    CASE r.op = "register" -> r.name # "" /\ r.email # Empty /\ r.password # ""
      [] r.op = "login"    -> r.email # Empty /\ r.password # ""
      [] OTHER             -> EmailOf(r) # Empty

\* Client q has a call in flight for the same operation on the same email as r.
InFlightSame(q, r) ==
    /\ ~Free(q) /\ req[q].op = r.op
    /\ Complete(req[q]) /\ Complete(r)
    /\ EmailOf(req[q]) = EmailOf(r)

\* History of a request as it arrives on connection p.
Arrival(p, r) ==
    LET again == /\ pc[p] = "done" /\ req[p].op = r.op
                 /\ Complete(req[p]) /\ Complete(r)
                 /\ EmailOf(req[p]) = EmailOf(r)
                 /\ \A q \in Clients \ {p} : pc[q] = "idle"
        ok    == again /\ resp[p].status = 200
    IN  [pre     |-> EmailOf(r) # Empty /\ GetUserByEmail(EmailOf(r)) # Null,
         prev    |-> IF ~again THEN "none" ELSE IF ok THEN "ok" ELSE "err",
         prevId  |-> IF ok THEN resp[p].user.id ELSE 0,
         prevPre |-> again /\ hist[p].pre,
         race    |-> \E q \in Clients \ {p} : InFlightSame(q, r),
         made    |-> 0,
         path    |-> "",
         at      |-> now,
         calls   |-> <<>>,
         saw     |-> ""]

\* a request arrives on connection p; calls are those its handler makes before
\* its first await
AcceptWith(p, r, calls) ==
    /\ Free(p)
    /\ req'  = [req EXCEPT ![p] = r]
    /\ hist' = [q \in Clients |->
                  IF q = p THEN [Arrival(p, r) EXCEPT !.calls = calls]
                  ELSE IF InFlightSame(q, r) THEN [hist[q] EXCEPT !.race = TRUE]
                  ELSE hist[q]]

Accept(p, r) == AcceptWith(p, r, <<>>)

\* request p awaited or made this call, with this outcome
Note(p, call, ok) == hist' = [hist EXCEPT ![p] = Logged(@, call, ok)]

\* the request ends with this response
Reply(p, r) ==
    /\ pc'   = [pc EXCEPT ![p] = "done"]
    /\ resp' = [resp EXCEPT ![p] = r]

Goto(p, label) ==
    /\ pc'   = [pc EXCEPT ![p] = label]
    /\ resp' = [resp EXCEPT ![p] = NoResp]

\* faulty variant: the document is written over the newest record
Insert_Overwrites(p, doc, via, secret) ==
    /\ users'  = IF users = <<>> THEN <<Created(doc)>>
                 ELSE [users EXCEPT ![Len(users)] = Created(doc)]
    /\ origin' = IF users = <<>> THEN <<[via |-> via, secret |-> secret]>>
                 ELSE [origin EXCEPT ![Len(users)] = [via |-> via, secret |-> secret]]
    /\ hist'   = [hist EXCEPT ![p] = [Logged(@, "createUser", TRUE) EXCEPT !.made = @ + 1]]

\* storage.createUser(doc) resolved: the record is stored, history notes who made it
Insert(p, doc, via, secret) ==
    /\ users'  = Append(users, Created(doc))
    /\ origin' = Append(origin, [via |-> via, secret |-> secret])
    /\ hist'   = [hist EXCEPT ![p] = [Logged(@, "createUser", TRUE) EXCEPT !.made = @ + 1]]

\* ------------------------------------------------------------------ register
RegisterBodies ==
    [op : {"register"}, name : {"n"}, email : Emails, password : {"p", "q"},
     username : {Empty, <<"b">>}, idToken : {Null}, auth : {<<>>}]
    \cup {[NoReq EXCEPT !.op = "register", !.email = EmailAX, !.password = "p"],
          [NoReq EXCEPT !.op = "register", !.name = "n", !.password = "p"],
          [NoReq EXCEPT !.op = "register", !.name = "n", !.email = EmailAX]}

\* the bodies two racing clients send
RaceRegisterBodies ==
    {r \in [op : {"register"}, name : {"n"}, email : {EmailAX, EmailBX},
            password : {"p"}, username : {Empty, <<"b">>}, idToken : {Null},
            auth : {<<>>}] : r.email = EmailAX \/ r.username # Empty}

\* register, up to the first await
RegisterBegin(p, bodies) ==
    /\ \E r \in bodies :
        /\ Accept(p, r)
        /\ IF r.name = "" \/ r.email = Empty \/ r.password = ""
           THEN Reply(p, Failure(400, "Name, email, and password are required"))
           ELSE Goto(p, "reg_email")
    /\ UNCHANGED <<users, origin, now, site, shop>>

\* faulty variant: the result of the email lookup is not looked at
RegisterCheckEmail_Skips(p) ==
    /\ pc[p] = "reg_email"
    /\ IF req[p].username # Empty
       THEN Goto(p, "reg_username")
       ELSE Goto(p, "reg_create")
    /\ UNCHANGED <<users, origin, now, req, hist, site, shop>>

\* faulty variant: a taken username is reported before an existing email
RegisterCheckEmail_UsernameFirst(p) ==
    /\ pc[p] = "reg_email"
    /\ IF req[p].username # Empty /\ GetUserByUsername(req[p].username) # Null
       THEN Reply(p, Failure(400, "Username is already taken"))
       ELSE IF GetUserByEmail(req[p].email) # Null
       THEN Reply(p, Failure(400, "User with this email already exists"))
       ELSE Goto(p, "reg_create")
    /\ Note(p, "getUserByEmail", TRUE)
    /\ UNCHANGED <<users, origin, now, req, site, shop>>

\* await storage.getUserByEmail(email), up to the next await
RegisterCheckEmail(p) ==
    /\ pc[p] = "reg_email"
    /\ IF GetUserByEmail(req[p].email) # Null
       THEN Reply(p, Failure(400, "User with this email already exists"))
       ELSE IF req[p].username # Empty
            THEN Goto(p, "reg_username")
            ELSE Goto(p, "reg_create")
    /\ Note(p, "getUserByEmail", TRUE)
    /\ UNCHANGED <<users, origin, now, req, site, shop>>

\* await storage.getUserByUsername(username), up to the next await
RegisterCheckUsername(p) ==
    /\ pc[p] = "reg_username"
    /\ IF GetUserByUsername(req[p].username) # Null
       THEN Reply(p, Failure(400, "Username is already taken"))
       ELSE Goto(p, "reg_create")
    /\ Note(p, "getUserByUsername", TRUE)
    /\ UNCHANGED <<users, origin, now, req, site, shop>>

\* faulty variant: the role is taken from the body when the body names one
RegisterDoc_BodyRole(r, salt) ==
    [name |-> r.name, email |-> r.email,
     username |-> IF r.username # Empty THEN r.username ELSE LocalPart(r.email),
     password |-> BcryptHash(r.password, salt),
     role |-> IF "role" \in DOMAIN r THEN r.role ELSE "user"]

\* faulty variant: the password is left out of the document
RegisterDoc_NoPassword(r, salt) ==
    [name |-> r.name, email |-> r.email,
     username |-> IF r.username # Empty THEN r.username ELSE LocalPart(r.email),
     password |-> Undefined, role |-> "user"]

\* the document register hands to createUser
RegisterDoc(r, salt) ==
    [name |-> r.name, email |-> r.email,
     username |-> IF r.username # Empty THEN r.username ELSE LocalPart(r.email),
     password |-> BcryptHash(r.password, salt), role |-> "user"]

\* genSalt, hash, await storage.createUser(newUser), sign, respond; or the catch
RegisterCreate(p) ==
    /\ pc[p] = "reg_create"
    /\ \E salt \in Salts :
        LET doc == RegisterDoc(req[p], salt) IN
        IF CreateUserResolves(doc)
        THEN /\ Insert(p, doc, "register", req[p].password)
             /\ Reply(p, TokenResponse(Created(doc)))
        ELSE /\ Reply(p, Failure(500, "Error creating user"))
             /\ Note(p, "createUser", FALSE)
             /\ UNCHANGED <<users, origin>>
    /\ UNCHANGED <<now, req, site, shop>>

\* --------------------------------------------------------------------- login
LoginBodies ==
    [op : {"login"}, name : {""}, email : Emails, password : {"p", "q", "s"},
     username : {Empty}, idToken : {Null}, auth : {<<>>}]
    \cup {[NoReq EXCEPT !.op = "login", !.email = EmailAX],
          [NoReq EXCEPT !.op = "login", !.password = "p"]}

RaceLoginBodies ==
    [op : {"login"}, name : {""}, email : {EmailAX}, password : {"p", "q"},
     username : {Empty}, idToken : {Null}, auth : {<<>>}]

\* login, up to the first await
LoginBegin(p, bodies) ==
    /\ \E r \in bodies :
        /\ Accept(p, r)
        /\ IF r.email = Empty \/ r.password = ""
           THEN Reply(p, Failure(400, "Email and password are required"))
           ELSE Goto(p, "login_user")
    /\ UNCHANGED <<users, origin, now, site, shop>>

\* faulty variant: the result of bcrypt.compare is not looked at
LoginLookup_NoCompare(p) ==
    /\ pc[p] = "login_user"
    /\ LET user == GetUserByEmail(req[p].email) IN
       IF user = Null
       THEN Reply(p, Failure(401, "Invalid email or password"))
       ELSE IF user.password = Undefined
       THEN Reply(p, Failure(400, "This account uses a different authentication method"))
       ELSE Reply(p, TokenResponse(user))
    /\ UNCHANGED <<users, origin, now, req, hist, site, shop>>

\* faulty variant: a record without a password is answered like a wrong password
LoginLookup_OneError(p) ==
    /\ pc[p] = "login_user"
    /\ LET user == GetUserByEmail(req[p].email) IN
       IF user = Null \/ user.password = Undefined
       THEN Reply(p, Failure(401, "Invalid email or password"))
       ELSE IF ~BcryptCompare(req[p].password, user.password)
       THEN Reply(p, Failure(401, "Invalid email or password"))
       ELSE Reply(p, TokenResponse(user))
    /\ Note(p, "getUserByEmail", TRUE)
    /\ UNCHANGED <<users, origin, now, req, site, shop>>

\* await storage.getUserByEmail(email), bcrypt.compare, sign, respond
LoginLookup(p) ==
    /\ pc[p] = "login_user"
    /\ LET user == GetUserByEmail(req[p].email) IN
       IF user = Null
       THEN Reply(p, Failure(401, "Invalid email or password"))
       ELSE IF user.password = Undefined
       THEN Reply(p, Failure(400, "This account uses a different authentication method"))
       ELSE IF ~BcryptCompare(req[p].password, user.password)
       THEN Reply(p, Failure(401, "Invalid email or password"))
       ELSE Reply(p, TokenResponse(user))
    /\ Note(p, "getUserByEmail", TRUE)
    /\ UNCHANGED <<users, origin, now, req, site, shop>>

\* ------------------------------------------------- Google identity assertion
\* An ID token: token.split('.') has nparts segments, the middle one is the
\* base64 of body, and signer made the signature.
Body(email, name, sub) == [json |-> TRUE, email |-> email, name |-> name, sub |-> sub]
GarbageBody == [json |-> FALSE, email |-> Empty, name |-> "", sub |-> ""]

IdTokens ==
    {[nparts |-> 3, signer |-> g, body |-> Body(e, "g", "s")] :
        e \in Emails, g \in {"google", "other"}}
    \cup {[nparts |-> 3, signer |-> "google", body |-> Body(Empty, "g", "s")],
          [nparts |-> 3, signer |-> "other",  body |-> Body(Empty, "g", "s")],
          [nparts |-> 3, signer |-> "google", body |-> Body(EmailAX, "", "")],
          [nparts |-> 3, signer |-> "other",  body |-> GarbageBody],
          [nparts |-> 2, signer |-> "other",  body |-> GarbageBody],
          Null}

RaceIdTokens ==
    {[nparts |-> 3, signer |-> "google", body |-> Body(EmailAX, "g", "s")],
     [nparts |-> 3, signer |-> "other",  body |-> Body(EmailBX, "g", "s")]}

\* Math.random().toString()
RandomSecrets == {"r"}

\* client.verifyIdToken({idToken, audience: undefined}) resolves, or rejects
VerifyIdTokenResolves(t) == t.nparts = 3 /\ t.signer = "google" /\ t.body.json

\* JSON.parse(Buffer.from(parts[1], 'base64').toString('utf8')) returns, or throws
ParseResolves(t) == t.body.json

\* faulty variant: no password is put in the document
GoogleDoc_NoPassword(body, secret, salt) ==
    [name |-> IF body.name # "" THEN body.name ELSE "Google User",
     email |-> body.email, username |-> LocalPart(body.email),
     password |-> Undefined, role |-> "user"]

\* the document the Google handlers hand to createUser
GoogleDoc(body, secret, salt) ==
    [name |-> IF body.name # "" THEN body.name ELSE "Google User",
     email |-> body.email, username |-> LocalPart(body.email),
     password |-> BcryptHash(secret, salt), role |-> "user"]

\* payload.sub || Math.random().toString()
VerifiedSecrets(body) == IF body.sub # "" THEN {body.sub} ELSE RandomSecrets

GoogleBegin(p, op, tokens) ==
    /\ \E t \in tokens :
        /\ Accept(p, [NoReq EXCEPT !.op = op, !.idToken = t])
        /\ IF t = Null
           THEN Reply(p, Failure(400, "Google token is required"))
           ELSE Goto(p, "g_verify")
    /\ UNCHANGED <<users, origin, now, site, shop>>

\* catch (verifyError): split, decode, check, up to the await of the lookup;
\* h is the history of the request up to the error caught
FallbackParse(p, h) ==
    LET t == req[p].idToken IN
    /\ hist' = [hist EXCEPT ![p] =
                  [Logged(h, "catch (verifyError)", TRUE) EXCEPT !.path = "fallback"]]
    /\ IF t.nparts # 3
       THEN Reply(p, Failure(400, "Invalid token format"))
       ELSE IF ~ParseResolves(t)
       THEN Reply(p, Failure(400, "Unable to process Google token"))
       ELSE IF t.body.email = Empty
       THEN Reply(p, Failure(400, "Invalid token content"))
       ELSE Goto(p, "fb_lookup")

\* await client.verifyIdToken(...), getPayload, up to the await of the lookup
GoogleVerify(p, op) ==
    /\ pc[p] = "g_verify" /\ req[p].op = op
    /\ LET t == req[p].idToken IN
       IF VerifyIdTokenResolves(t)
       THEN /\ hist' = [hist EXCEPT ![p] =
                         [Logged(@, "verifyIdToken", TRUE) EXCEPT !.path = "verified"]]
            /\ IF t.body.email = Empty
               THEN Reply(p, Failure(400, "Invalid Google token payload"))
               ELSE Goto(p, "g_lookup")
       ELSE FallbackParse(p, Logged(hist[p], "verifyIdToken", FALSE))
    /\ UNCHANGED <<users, origin, now, req, site, shop>>

\* what a Google handler does with the result of getUserByEmail
GoogleFound(p, op, user, create) ==
    IF user = Null
    THEN Goto(p, create)
    ELSE IF op = "googleLogin"
    THEN Reply(p, TokenResponse(user))
    ELSE Reply(p, Failure(400, "User with this email already exists"))

\* verified path: await storage.getUserByEmail(payload.email)
GoogleLookup(p, op) ==
    /\ pc[p] = "g_lookup" /\ req[p].op = op
    /\ GoogleFound(p, op, GetUserByEmail(req[p].idToken.body.email), "g_create")
    /\ Note(p, "getUserByEmail", TRUE)
    /\ UNCHANGED <<users, origin, now, req, site, shop>>

\* verified path: hash, await storage.createUser(newUser), sign, respond;
\* a rejection is caught by catch (verifyError)
GoogleCreate(p, op) ==
    /\ pc[p] = "g_create" /\ req[p].op = op
    /\ LET body == req[p].idToken.body IN
       \E salt \in Salts, secret \in VerifiedSecrets(body) :
        LET doc == GoogleDoc(body, secret, salt) IN
        IF CreateUserResolves(doc)
        THEN /\ Insert(p, doc, "verified", secret)
             /\ Reply(p, TokenResponse(Created(doc)))
        ELSE /\ FallbackParse(p, Logged(hist[p], "createUser", FALSE))
             /\ UNCHANGED <<users, origin>>
    /\ UNCHANGED <<now, req, site, shop>>

\* fallback path: await storage.getUserByEmail(decoded.email)
FallbackLookup(p, op) ==
    /\ pc[p] = "fb_lookup" /\ req[p].op = op
    /\ GoogleFound(p, op, GetUserByEmail(req[p].idToken.body.email), "fb_create")
    /\ Note(p, "getUserByEmail", TRUE)
    /\ UNCHANGED <<users, origin, now, req, site, shop>>

\* fallback path: hash, await storage.createUser(newUser), sign, respond;
\* a rejection is caught by catch (fallbackError)
FallbackCreate(p, op) ==
    /\ pc[p] = "fb_create" /\ req[p].op = op
    /\ \E salt \in Salts, secret \in RandomSecrets :
        LET doc == GoogleDoc(req[p].idToken.body, secret, salt) IN
        IF CreateUserResolves(doc)
        THEN /\ Insert(p, doc, "fallback", secret)
             /\ Reply(p, TokenResponse(Created(doc)))
        ELSE /\ Reply(p, Failure(400, "Unable to process Google token"))
             /\ Note(p, "createUser", FALSE)
             /\ UNCHANGED <<users, origin>>
    /\ UNCHANGED <<now, req, site, shop>>

\* ------------------------------------------------------------- googleLogin
GoogleLoginBegin(p, tokens)  == GoogleBegin(p, "googleLogin", tokens)
GoogleLoginVerify(p)         == GoogleVerify(p, "googleLogin")
GoogleLoginLookup(p)         == GoogleLookup(p, "googleLogin")
GoogleLoginCreate(p)         == GoogleCreate(p, "googleLogin")
GoogleLoginFallbackLookup(p) == FallbackLookup(p, "googleLogin")
GoogleLoginFallbackCreate(p) == FallbackCreate(p, "googleLogin")

\* ------------------------------------------------------ registerWithGoogle
GoogleRegisterBegin(p, tokens)  == GoogleBegin(p, "registerWithGoogle", tokens)
GoogleRegisterVerify(p)         == GoogleVerify(p, "registerWithGoogle")
GoogleRegisterLookup(p)         == GoogleLookup(p, "registerWithGoogle")
GoogleRegisterCreate(p)         == GoogleCreate(p, "registerWithGoogle")
GoogleRegisterFallbackLookup(p) == FallbackLookup(p, "registerWithGoogle")
GoogleRegisterFallbackCreate(p) == FallbackCreate(p, "registerWithGoogle")

\* ---------------------------------------------------------- getCurrentUser
\* An Authorization header is the sequence of its space-separated words.
\* Clients present the tokens they were sent, tokens re-signed with a key of
\* their own, and strings that are no token.
Held   == {resp[q].token : q \in Clients} \ {NoToken}
Forged == {[t EXCEPT !.sig = Hmac(t.payload, "guess")] : t \in Held}

AuthHeaders ==
    {<<>>, <<"Bearer">>, <<"Basic", GarbageToken>>}
    \cup {<<"Bearer", t>> : t \in Held \cup Forged \cup {EmptyToken, GarbageToken}}

RaceAuthHeaders == {<<>>} \cup {<<"Bearer", t>> : t \in Held}

\* faulty variant: any scheme followed by a space passes
StartsWithBearer_AnyScheme(h) == Len(h) >= 2

\* authHeader.startsWith('Bearer ')
StartsWithBearer(h) == Len(h) >= 2 /\ h[1] = "Bearer"

\* authHeader.split(' ')[1]
BearerToken(h) == h[2]

\* getCurrentUser: header check and jwt.verify, up to the await of getUser
MeBegin(p, headers) ==
    /\ \E h \in headers :
        /\ AcceptWith(p, [NoReq EXCEPT !.op = "getCurrentUser", !.auth = h],
                      IF StartsWithBearer(h)
                      THEN <<[call |-> "jwt.verify",
                              ok   |-> JwtVerifies(BearerToken(h), JWT_SECRET, now)]>>
                      ELSE <<>>)
        /\ IF ~StartsWithBearer(h)
           THEN Reply(p, Failure(401, "No token provided"))
           ELSE IF ~JwtVerifies(BearerToken(h), JWT_SECRET, now)
           THEN Reply(p, Failure(401, "Invalid token"))
           ELSE Goto(p, "me_user")
    /\ UNCHANGED <<users, origin, now, site, shop>>

\* await storage.getUser(decoded.id), respond
MeLookup(p) ==
    /\ pc[p] = "me_user"
    /\ LET user == GetUser(JwtDecoded(BearerToken(req[p].auth)).id) IN
       IF user = Null
       THEN Reply(p, Failure(404, "User not found"))
       ELSE Reply(p, [status |-> 200, error |-> "", token |-> NoToken,
                      user |-> WithoutPassword(user)])
    /\ Note(p, "getUser", TRUE)
    /\ UNCHANGED <<users, origin, now, req, site, shop>>

\* --------------------------------------------------------------------- clock
Tick ==
    /\ now < MaxTime
    /\ now' = now + 1
    /\ UNCHANGED <<users, origin, pc, req, resp, hist, site, shop>>

\* ------------------------------------------------------------ specifications
Register(p, bodies) ==
    \/ RegisterBegin(p, bodies)
    \/ RegisterCheckEmail(p)
    \/ RegisterCheckUsername(p)
    \/ RegisterCreate(p)

Login(p, bodies) ==
    \/ LoginBegin(p, bodies)
    \/ LoginLookup(p)

GoogleLogin(p, tokens) ==
    \/ GoogleLoginBegin(p, tokens)
    \/ GoogleLoginVerify(p)
    \/ GoogleLoginLookup(p)
    \/ GoogleLoginCreate(p)
    \/ GoogleLoginFallbackLookup(p)
    \/ GoogleLoginFallbackCreate(p)

RegisterWithGoogle(p, tokens) ==
    \/ GoogleRegisterBegin(p, tokens)
    \/ GoogleRegisterVerify(p)
    \/ GoogleRegisterLookup(p)
    \/ GoogleRegisterCreate(p)
    \/ GoogleRegisterFallbackLookup(p)
    \/ GoogleRegisterFallbackCreate(p)

GetCurrentUser(p, headers) ==
    \/ MeBegin(p, headers)
    \/ MeLookup(p)

\* Requests on the two connections, in any interleaving.
Next ==
    \E p \in Clients :
        \/ Register(p, RaceRegisterBodies)
        \/ Login(p, RaceLoginBodies)
        \/ GoogleLogin(p, RaceIdTokens)
        \/ RegisterWithGoogle(p, RaceIdTokens)
        \/ GetCurrentUser(p, RaceAuthHeaders)

Spec == Init /\ [][Next]_vars

\* One client calling the operations one after the other, with every input.
NextSeq ==
    \/ Register("c1", RegisterBodies)
    \/ Login("c1", LoginBodies)
    \/ GoogleLogin("c1", IdTokens)
    \/ RegisterWithGoogle("c1", IdTokens)
    \/ GetCurrentUser("c1", AuthHeaders)

SpecSeq == Init /\ [][NextSeq]_vars

\* One client and the clock: tokens are issued, age, and are presented.
ClockRegisterBodies == {r \in RaceRegisterBodies : r.email = EmailAX}

NextClock ==
    \/ Register("c1", ClockRegisterBodies)
    \/ Login("c1", RaceLoginBodies)
    \/ GoogleLogin("c1", RaceIdTokens)
    \/ RegisterWithGoogle("c1", RaceIdTokens)
    \/ GetCurrentUser("c1", AuthHeaders)
    \/ Tick

SpecClock == Init /\ [][NextClock]_vars

\* ------------------------------------------------- a store call that fails
\* The awaited store call rejects (the database cannot be reached) and the
\* handler's catch block answers.
StoreCallAt(label) ==
    CASE label \in {"reg_email", "login_user", "g_lookup", "fb_lookup"} -> "getUserByEmail"
      [] label = "reg_username"                                       -> "getUserByUsername"
      [] label \in {"reg_create", "g_create", "fb_create"}            -> "createUser"
      [] OTHER                                                        -> "getUser"

\* register: catch (error)
RegisterStoreRaises(p) ==
    /\ pc[p] \in {"reg_email", "reg_username", "reg_create"}
    /\ Note(p, StoreCallAt(pc[p]), FALSE)
    /\ Reply(p, Failure(500, "Error creating user"))
    /\ UNCHANGED <<users, origin, now, req, site, shop>>

\* login: catch (error)
LoginStoreRaises(p) ==
    /\ pc[p] = "login_user"
    /\ Note(p, StoreCallAt(pc[p]), FALSE)
    /\ Reply(p, Failure(500, "Error logging in"))
    /\ UNCHANGED <<users, origin, now, req, site, shop>>

\* googleLogin, registerWithGoogle, verified path: catch (verifyError)
GoogleStoreRaises(p) ==
    /\ pc[p] \in {"g_lookup", "g_create"}
    /\ FallbackParse(p, Logged(hist[p], StoreCallAt(pc[p]), FALSE))
    /\ UNCHANGED <<users, origin, now, req, site, shop>>

\* googleLogin, registerWithGoogle, fallback path: catch (fallbackError)
FallbackStoreRaises(p) ==
    /\ pc[p] \in {"fb_lookup", "fb_create"}
    /\ Note(p, StoreCallAt(pc[p]), FALSE)
    /\ Reply(p, Failure(400, "Unable to process Google token"))
    /\ UNCHANGED <<users, origin, now, req, site, shop>>

\* getCurrentUser: catch (jwtError)
MeStoreRaises(p) ==
    /\ pc[p] = "me_user"
    /\ Note(p, StoreCallAt(pc[p]), FALSE)
    /\ Reply(p, Failure(401, "Invalid token"))
    /\ UNCHANGED <<users, origin, now, req, site, shop>>

\* One client, and a store whose calls may fail.
NextOutage ==
    \/ Register("c1", ClockRegisterBodies)
    \/ Login("c1", RaceLoginBodies)
    \/ GoogleLogin("c1", RaceIdTokens)
    \/ RegisterWithGoogle("c1", RaceIdTokens)
    \/ GetCurrentUser("c1", RaceAuthHeaders)
    \/ RegisterStoreRaises("c1")
    \/ LoginStoreRaises("c1")
    \/ GoogleStoreRaises("c1")
    \/ FallbackStoreRaises("c1")
    \/ MeStoreRaises("c1")

SpecOutage == Init /\ [][NextOutage]_vars

\* ------------------------------------------- a store with an imported record
\* IUser.password is optional: the collection may hold a record that none of
\* these handlers wrote and that has no password.
Imported == [id |-> 1, name |-> "n", email |-> EmailBX, username |-> Empty,
             password |-> Undefined, role |-> "user"]

InitImported ==
    /\ users \in {<<>>, <<Imported>>}
    /\ origin = [i \in 1..Len(users) |-> [via |-> "import", secret |-> ""]]
    /\ now    = 0
    /\ pc     = [p \in Clients |-> "idle"]
    /\ req    = [p \in Clients |-> NoReq]
    /\ resp   = [p \in Clients |-> NoResp]
    /\ hist   = [p \in Clients |-> NoHist]
    /\ InitSite /\ InitShop

\* an address with two '@'
EmailTwoAts == <<"b", At, "a", At, "x">>

ImportedRegisterBodies ==
    [op : {"register"}, name : {"n"}, email : {EmailAX, EmailTwoAts},
     password : {"p"}, username : {Empty, <<"b">>}, idToken : {Null}, auth : {<<>>}]

ImportedLoginBodies ==
    [op : {"login"}, name : {""}, email : {EmailAX, EmailBX}, password : {"p", "q"},
     username : {Empty}, idToken : {Null}, auth : {<<>>}]

\* One client, over a store that may hold the imported record.
NextImported ==
    \/ Register("c1", ImportedRegisterBodies)
    \/ Login("c1", ImportedLoginBodies)
    \/ GoogleLogin("c1", RaceIdTokens)
    \/ RegisterWithGoogle("c1", RaceIdTokens)
    \/ GetCurrentUser("c1", RaceAuthHeaders)

SpecImported == InitImported /\ [][NextImported]_vars

\* ------------------------------------------------ admin content management
\* POST /api/<kind>, PUT /api/<kind>/:id, DELETE /api/<kind>/:id for videos,
\* events, mixes and gallery: twelve routes with the same code but for the
\* storage function called and the words of the messages.
Methods == {"POST", "PUT", "DELETE"}

\* the number of items the content store holds, over all kinds
Stored == Cardinality(UNION {{<<k, i.id>> : i \in content[k]} : k \in Kinds})
ItemIds == 1..MaxItems

Verb(method) == CASE method = "POST" -> "create" [] method = "PUT" -> "update"
                  [] OTHER -> "delete"

Noun(kind) == CASE kind = "videos" -> "video" [] kind = "events" -> "event"
                [] kind = "mixes" -> "mix" [] OTHER -> "gallery item"

\* res.status(500).json({ message: "Failed to <verb> <noun>" })
FailedTo(method, kind) ==
    [status |-> 500, error |-> "", token |-> NoToken, user |-> Null,
     message |-> <<"Failed to", Verb(method), Noun(kind)>>]

\* res.status(404).json({ error: '<Noun> not found' })
NotFound(kind) ==
    Failure(404, CASE kind = "videos" -> "Video not found"
                   [] kind = "events" -> "Event not found"
                   [] kind = "mixes"  -> "Mix not found"
                   [] OTHER           -> "Gallery item not found")

\* res.status(201).json(item), res.json(item), res.status(204).end()
ContentResponse(status) == [status |-> status, error |-> "", token |-> NoToken, user |-> Null]

ContentRequest(method, kind, id, header) ==
    [op |-> "content", method |-> method, kind |-> kind, item |-> id,
     name |-> "", email |-> Empty, password |-> "", username |-> Empty,
     idToken |-> Null, auth |-> header]

\* faulty variant: a token that fails verification is answered with 401
ContentBegin_Unauthorized(p, kinds, headers) ==
    /\ \E m \in Methods, k \in kinds, id \in ItemIds, h \in headers :
        /\ m = "POST" => id = 1 /\ Stored < MaxItems
        /\ AcceptWith(p, ContentRequest(m, k, id, h),
                      IF StartsWithBearer(h)
                      THEN <<[call |-> "jwt.verify",
                              ok   |-> JwtVerifies(BearerToken(h), JWT_SECRET, now)]>>
                      ELSE <<>>)
        /\ IF ~StartsWithBearer(h)
           THEN Reply(p, Failure(401, "Authentication required"))
           ELSE IF ~JwtVerifies(BearerToken(h), JWT_SECRET, now)
           THEN Reply(p, Failure(401, "Invalid token"))
           ELSE Goto(p, "adm_user")
    /\ UNCHANGED <<users, origin, now, site, shop>>

\* the route up to its first await: header check, split, jwt.verify
ContentBegin(p, kinds, headers) ==
    /\ \E m \in Methods, k \in kinds, id \in ItemIds, h \in headers :
        /\ m = "POST" => id = 1 /\ Stored < MaxItems
        /\ AcceptWith(p, ContentRequest(m, k, id, h),
                      IF StartsWithBearer(h)
                      THEN <<[call |-> "jwt.verify",
                              ok   |-> JwtVerifies(BearerToken(h), JWT_SECRET, now)]>>
                      ELSE <<>>)
        /\ IF ~StartsWithBearer(h)
           THEN Reply(p, Failure(401, "Authentication required"))
           ELSE IF ~JwtVerifies(BearerToken(h), JWT_SECRET, now)
           THEN Reply(p, FailedTo(m, k))
           ELSE Goto(p, "adm_user")
    /\ UNCHANGED <<users, origin, now, site, shop>>

\* faulty variant: any stored user passes
ContentLookup_AnyUser(p) ==
    /\ pc[p] = "adm_user"
    /\ LET user == GetUser(JwtDecoded(BearerToken(req[p].auth)).id) IN
       /\ IF user = Null
          THEN Reply(p, Failure(403, "Admin access required"))
          ELSE Goto(p, "adm_write")
       /\ hist' = [hist EXCEPT ![p] = [Logged(@, "getUser", TRUE) EXCEPT
                       !.saw = IF user = Null THEN "none" ELSE user.role]]
    /\ UNCHANGED <<users, origin, now, req, site, shop>>

\* await storage.getUser(decoded.id), role check
ContentLookup(p) ==
    /\ pc[p] = "adm_user"
    /\ LET user == GetUser(JwtDecoded(BearerToken(req[p].auth)).id) IN
       /\ IF user = Null \/ user.role # "admin"
          THEN Reply(p, Failure(403, "Admin access required"))
          ELSE Goto(p, "adm_write")
       /\ hist' = [hist EXCEPT ![p] = [Logged(@, "getUser", TRUE) EXCEPT
                       !.saw = IF user = Null THEN "none" ELSE user.role]]
    /\ UNCHANGED <<users, origin, now, req, site, shop>>

\* the id storage.create<Kind> gives the new item
NewItemId(kind) == Min(ItemIds \ {i.id : i \in content[kind]})

\* await storage.create<Kind>(req.body) / update<Kind>(id, req.body) /
\* delete<Kind>(id), respond
ContentWrite(p) ==
    /\ pc[p] = "adm_write"
    /\ LET r    == req[p]
           have == {i \in content[r.kind] : i.id = r.item}
       IN  CASE r.method = "POST" ->
                  /\ content' = [content EXCEPT ![r.kind] =
                                    @ \cup {[id |-> NewItemId(r.kind), body |-> "v"]}]
                  /\ Reply(p, ContentResponse(201))
             [] r.method = "PUT" ->
                  IF have = {}
                  THEN /\ Reply(p, NotFound(r.kind))
                       /\ UNCHANGED content
                  ELSE /\ content' = [content EXCEPT ![r.kind] =
                                         (@ \ have) \cup {[id |-> r.item, body |-> "w"]}]
                       /\ Reply(p, ContentResponse(200))
             [] OTHER ->
                  IF have = {}
                  THEN /\ Reply(p, NotFound(r.kind))
                       /\ UNCHANGED content
                  ELSE /\ content' = [content EXCEPT ![r.kind] = @ \ have]
                       /\ Reply(p, ContentResponse(204))
    /\ Note(p, "write", TRUE)
    /\ UNCHANGED <<users, origin, now, req, shop>>

Content(p, kinds, headers) ==
    \/ ContentBegin(p, kinds, headers)
    \/ ContentLookup(p)
    \/ ContentWrite(p)

\* PUT /api/admin/users/role: an administrator gives a stored user a role
UpdateUserRole ==
    /\ \E i \in 1..Len(users), role \in {"user", "admin"} :
        /\ users[i].role # role
        /\ users' = [users EXCEPT ![i].role = role]
    /\ UNCHANGED <<origin, now, pc, req, resp, hist, site, shop>>

\* request bodies and assertions that carry a role of their own
WithRole(r) == r @@ [role |-> "admin"]

AdminRegisterBodies ==
    LET r == [op |-> "register", name |-> "n", email |-> EmailAX, password |-> "p",
              username |-> Empty, idToken |-> Null, auth |-> <<>>]
    IN  {r, WithRole(r), [r EXCEPT !.username = <<"b">>]}

\* the sign-up of the account that manages content
AdminSignups == {r \in AdminRegisterBodies : r.username # Empty}

AdminIdTokens ==
    {[nparts |-> 3, signer |-> "other",  body |-> WithRole(Body(EmailBX, "g", "s"))],
     [nparts |-> 3, signer |-> "google", body |-> WithRole(Body(EmailBX, "g", "s"))]}

AdminLoginBodies == {r \in RaceLoginBodies : r.password = "p"}

AdminHeaders ==
    {<<>>, <<"Basic", GarbageToken>>}
    \cup {<<"Bearer", t>> : t \in Held \cup Forged \cup {GarbageToken}}

\* One client that registers, logs in and manages content of every kind, users
\* being given and taken the admin role.
NextAdmin ==
    \/ Register("c1", AdminSignups)
    \/ Login("c1", AdminLoginBodies)
    \/ Content("c1", Kinds, AdminHeaders)
    \/ UpdateUserRole

SpecAdmin == Init /\ [][NextAdmin]_vars

\* Authorization: Bearer <token>, the token held, forged, empty or no token at all
ExpiryHeaders == {<<"Bearer", t>> : t \in Held \cup Forged \cup {EmptyToken, GarbageToken}}

\* One client that registers and manages content with the token it was given,
\* while the clock runs past the token's lifetime.
NextExpiry ==
    \/ Register("c1", AdminSignups)
    \/ Content("c1", Kinds, ExpiryHeaders)
    \/ UpdateUserRole
    \/ Tick

SpecExpiry == Init /\ [][NextExpiry]_vars

\* One client that creates accounts with requests that name a role, users
\* being given and taken the admin role.
NextRoles ==
    \/ Register("c1", AdminRegisterBodies)
    \/ Login("c1", AdminLoginBodies)
    \/ GoogleLogin("c1", AdminIdTokens)
    \/ RegisterWithGoogle("c1", AdminIdTokens)
    \/ GetCurrentUser("c1", RaceAuthHeaders)
    \/ UpdateUserRole

SpecRoles == Init /\ [][NextRoles]_vars

\* --------------------------------------------------------------- CartProvider
\* Product (@shared/schema): what the provider reads of it
Tee == [id |-> "p1", name |-> "tee", price |-> 2, imageUrl |-> Undefined]
Cap == [id |-> "p2", name |-> "cap", price |-> 3, imageUrl |-> [url |-> "u"]]

Products   == {Tee, Cap}
ProductIds == {p.id : p \in Products}

\* the CartItem addToCart builds; Date.now() is read off the clock
NewLine(product, quantity) ==
    [id |-> <<product.id, now>>, name |-> product.name, price |-> product.price,
     quantity |-> quantity, imageUrl |-> product.imageUrl, product |-> product]

\* JSON.stringify of an object: a key whose value is undefined is left out
JsonObject(o) ==
    LET keys == {k \in DOMAIN o : k # "imageUrl" \/ o.imageUrl # Undefined}
    IN  [k \in keys |-> IF k = "product" THEN
                            [j \in {i \in DOMAIN o.product :
                                        i # "imageUrl" \/ o.product.imageUrl # Undefined}
                                |-> o.product[j]]
                        ELSE o[k]]

\* JSON.stringify(cart)
JsonStringify(lines) == [i \in 1..Len(lines) |-> JsonObject(lines[i])]

\* reading a key a parsed object does not have gives undefined
ImageUrlOf(o) == IF "imageUrl" \in DOMAIN o THEN o.imageUrl ELSE Undefined

\* JSON.parse of a stringified cart
JsonParse(text) ==
    [i \in 1..Len(text) |->
        [id |-> text[i].id, name |-> text[i].name, price |-> text[i].price,
         quantity |-> text[i].quantity, imageUrl |-> ImageUrlOf(text[i]),
         product |-> [id |-> text[i].product.id, name |-> text[i].product.name,
                      price |-> text[i].product.price,
                      imageUrl |-> ImageUrlOf(text[i].product)]]]

\* localStorage.setItem('cart', text)
SetItem(text) == [entry |-> "json", lines |-> text]

\* an entry JSON.parse throws on
Unparsable == [entry |-> "unparsable", lines |-> <<>>]

\* carts an earlier visit left in localStorage
SavedCarts == {<<>>, <<NewLine(Tee, 2)>>, <<NewLine(Cap, 1)>>}

SavedEntries == {NoEntry, Unparsable} \cup {SetItem(JsonStringify(c)) : c \in SavedCarts}

\* faulty variant: the total is taken over the lines, quantities left out
Total_PerLine(lines) ==
    LET Sum[i \in 0..Len(lines)] ==
            IF i = 0 THEN 0 ELSE Sum[i - 1] + lines[i].product.price
    IN  Sum[Len(lines)]

\* cart.reduce((acc, item) => acc + (item.product.price * item.quantity), 0)
Total(lines) ==
    LET Sum[i \in 0..Len(lines)] ==
            IF i = 0 THEN 0 ELSE Sum[i - 1] + lines[i].product.price * lines[i].quantity
    IN  Sum[Len(lines)]

\* cart.reduce((acc, item) => acc + item.quantity, 0)
Count(lines) ==
    LET Sum[i \in 0..Len(lines)] ==
            IF i = 0 THEN 0 ELSE Sum[i - 1] + lines[i].quantity
    IN  Sum[Len(lines)]

\* the first render and its two effects, in order: the mount effect reads the
\* saved cart and sets it; the effect on [cart] runs with the empty cart of the
\* first render
Mount ==
    /\ ~mounted
    /\ mounted' = TRUE
    /\ IF localStorage.entry = "json"
       THEN cart' = JsonParse(localStorage.lines) /\ pending' = 1
       ELSE UNCHANGED cart /\ pending' = 0
    /\ localStorage' = SetItem(JsonStringify(cart))
    /\ cartTotal' = Total(cart)
    /\ cartCount' = Count(cart)
    /\ UNCHANGED <<users, origin, now, pc, req, resp, hist, site, isCartOpen, lastCall>>

\* the effect on [cart], after a render in which cart has changed
CartEffect ==
    /\ mounted /\ pending > 0
    /\ pending' = 0
    /\ localStorage' = SetItem(JsonStringify(cart))
    /\ cartTotal' = Total(cart)
    /\ cartCount' = Count(cart)
    /\ UNCHANGED <<users, origin, now, pc, req, resp, hist, site, cart, isCartOpen,
                   mounted, lastCall>>

\* cart is set: the effect on [cart] is due; the call is noted
SetCart(lines, fn, productId, quantity) ==
    /\ mounted /\ pending < MaxBatch
    /\ cart' = lines
    /\ pending' = pending + 1
    /\ lastCall' = [fn |-> fn, productId |-> productId, quantity |-> quantity,
                    turn |-> 1 - lastCall.turn]
    /\ UNCHANGED <<users, origin, now, pc, req, resp, hist, site, cartTotal, cartCount,
                   localStorage, mounted>>

AddToCart ==
    \E product \in Products, quantity \in {1, 2} :
        /\ Len(cart) < MaxLines
        /\ SetCart(Append(cart, NewLine(product, quantity)), "addToCart",
                   product.id, quantity)
        /\ isCartOpen' = TRUE

\* prevCart.filter(item => item.product.id !== productId)
Filtered(lines, productId) ==
    SelectSeq(lines, LAMBDA item : item.product.id # productId)

RemoveFromCart ==
    \E productId \in ProductIds :
        /\ SetCart(Filtered(cart, productId), "removeFromCart", productId, 0)
        /\ UNCHANGED isCartOpen

\* faulty variant: a quantity of zero is written into the lines
Updated_ZeroKept(lines, productId, quantity) ==
    IF quantity < 0
    THEN Filtered(lines, productId)
    ELSE [i \in 1..Len(lines) |->
             IF lines[i].product.id = productId
             THEN [lines[i] EXCEPT !.quantity = quantity]
             ELSE lines[i]]

\* the cart updateQuantity sets
Updated(lines, productId, quantity) ==
    IF quantity <= 0
    THEN Filtered(lines, productId)
    ELSE [i \in 1..Len(lines) |->
             IF lines[i].product.id = productId
             THEN [lines[i] EXCEPT !.quantity = quantity]
             ELSE lines[i]]

UpdateQuantity ==
    \E productId \in ProductIds, quantity \in {-1, 0, 3} :
        /\ SetCart(Updated(cart, productId, quantity), "updateQuantity",
                   productId, quantity)
        /\ UNCHANGED isCartOpen

ClearCart ==
    /\ SetCart(<<>>, "clearCart", "", 0)
    /\ UNCHANGED isCartOpen

SetIsCartOpen ==
    /\ mounted
    /\ isCartOpen' = ~isCartOpen
    /\ UNCHANGED <<users, origin, now, pc, req, resp, hist, site, cart, cartTotal,
                   cartCount, localStorage, mounted, pending, lastCall>>

\* the provider before its first render, in a browser an earlier visit may
\* have left a cart in
InitCart ==
    /\ users  = <<>>
    /\ origin = <<>>
    /\ now    = 0
    /\ pc     = [p \in Clients |-> "idle"]
    /\ req    = [p \in Clients |-> NoReq]
    /\ resp   = [p \in Clients |-> NoResp]
    /\ hist   = [p \in Clients |-> NoHist]
    /\ InitSite
    /\ cart = <<>> /\ isCartOpen = FALSE /\ cartTotal = 0 /\ cartCount = 0
    /\ localStorage \in SavedEntries
    /\ mounted = FALSE /\ pending = 0
    /\ lastCall = NoCall

NextCart ==
    \/ Mount
    \/ CartEffect
    \/ AddToCart
    \/ RemoveFromCart
    \/ UpdateQuantity
    \/ ClearCart
    \/ SetIsCartOpen

SpecCart == InitCart /\ [][NextCart]_vars

\* =================================================================== claims
Done(p, op) == pc[p] = "done" /\ req[p].op = op

RecordsWith(email) == {i \in 1..Len(users) : users[i].email = email}

\* the stored record with this email was made by register with password pw
RegisteredWith(email, pw) ==
    \E i \in RecordsWith(email) : origin[i].via = "register" /\ origin[i].secret = pw

DuplicateEmail     == Failure(400, "User with this email already exists")
InvalidCredentials == Failure(401, "Invalid email or password")
InvalidToken       == Failure(401, "Invalid token")

Succeeded(p) == resp[p].status = 200 /\ resp[p].token # NoToken

\* C1: in every reachable state, whatever the interleaving of the five
\* operations, no two stored records have the same email and no two have the
\* same non-empty username.
C1_UniqueEmailAndUsername ==
    \A i, j \in 1..Len(users) :
        i # j => /\ users[i].email # users[j].email
                 /\ users[i].username # Empty => users[i].username # users[j].username

\* Two records are stored and an insert that passed its checks was refused.
C1_Witness ==
    /\ Len(users) >= 2
    /\ \E p \in Clients : Done(p, "register") /\ resp[p].status = 500

\* Two register calls with every required field, on the same email, in flight
\* together, the email not stored when either arrived.
RacingRegisters(p, q) ==
    /\ p # q
    /\ Done(p, "register") /\ Done(q, "register")
    /\ Complete(req[p]) /\ Complete(req[q])
    /\ req[p].email = req[q].email
    /\ hist[p].race /\ hist[q].race
    /\ ~hist[p].pre /\ ~hist[q].pre

\* C2 as stated: of two concurrent register calls with the same, initially
\* absent email, at most one succeeds, and exactly one record with that email
\* exists afterwards.
C2_Original ==
    \A p, q \in Clients :
        RacingRegisters(p, q) =>
            /\ ~(Succeeded(p) /\ Succeeded(q))
            /\ Cardinality(RecordsWith(req[p].email)) = 1

\* C2 amended: of two concurrent register calls with the same, initially absent
\* email, at most one succeeds, and at most one record with that email exists
\* afterwards: one exactly when one of the calls succeeded.
C2_AtMostOneSucceeds ==
    \A p, q \in Clients :
        RacingRegisters(p, q) =>
            /\ ~(Succeeded(p) /\ Succeeded(q))
            /\ Cardinality(RecordsWith(req[p].email)) <= 1
            /\ Cardinality(RecordsWith(req[p].email)) = 1
                   <=> (Succeeded(p) \/ Succeeded(q))

\* Both calls passed the existence check; one inserted, the other was refused.
C2_Witness ==
    \E p, q \in Clients :
        /\ RacingRegisters(p, q)
        /\ Succeeded(p) /\ hist[p].made = 1
        /\ resp[q].status = 500 /\ hist[q].made = 0

\* C3 as stated: when register is called twice in sequence with the same email,
\* required fields present both times, the second call fails with
\* DuplicateEmail, issues no token and inserts nothing.
C3_Original ==
    \A p \in Clients :
        Done(p, "register") /\ hist[p].prev # "none" =>
            resp[p] = DuplicateEmail /\ hist[p].made = 0

\* C3 amended: when register is called twice in sequence with the same email
\* and the first call succeeded, the second call fails with DuplicateEmail,
\* issues no token and inserts nothing.
C3_SecondRegisterFails ==
    \A p \in Clients :
        Done(p, "register") /\ hist[p].prev = "ok" =>
            resp[p] = DuplicateEmail /\ hist[p].made = 0

C3_Witness ==
    \E p \in Clients :
        /\ Done(p, "register") /\ hist[p].prev = "ok"
        /\ resp[p] = DuplicateEmail
        /\ Cardinality(RecordsWith(req[p].email)) = 1

\* C4: login with the email and the password of a record that register made
\* succeeds, and the claims of the token returned are the id, name and email
\* of the stored record.
C4_LoginSucceeds ==
    \A p \in Clients :
        /\ Done(p, "login") /\ hist[p].pre
        /\ RegisteredWith(req[p].email, req[p].password)
        => /\ Succeeded(p)
           /\ JwtVerifies(resp[p].token, JWT_SECRET, hist[p].at)
           /\ LET claims == JwtDecoded(resp[p].token)
                  stored == GetUserByEmail(req[p].email)
              IN  /\ claims.id = stored.id
                  /\ claims.name = stored.name
                  /\ claims.email = stored.email

C4_Witness ==
    \E p \in Clients :
        /\ Done(p, "login") /\ hist[p].pre
        /\ RegisteredWith(req[p].email, req[p].password)
        /\ Succeeded(p)

\* C5: login with the email of a registered user and another password than the
\* registered one fails with InvalidCredentials and no token; so does login
\* with an email no record has.
C5_LoginFails ==
    \A p \in Clients :
        /\ Done(p, "login") /\ Complete(req[p])
        /\ \/ /\ hist[p].pre
              /\ \E pw \in {"p", "q"} :
                    pw # req[p].password /\ RegisteredWith(req[p].email, pw)
           \/ RecordsWith(req[p].email) = {}
        => resp[p] = InvalidCredentials

C5_Witness ==
    \E p \in Clients :
        /\ Done(p, "login") /\ Complete(req[p]) /\ hist[p].pre
        /\ \E pw \in {"p", "q"} :
              pw # req[p].password /\ RegisteredWith(req[p].email, pw)
        /\ resp[p] = InvalidCredentials

\* C6 as stated: of two googleLogin calls in sequence whose assertions carry
\* the same email, both succeed, both return the same user id, the second
\* inserts nothing and one record with that email is stored afterwards,
\* whichever path each call takes.
C6_Original ==
    \A p \in Clients :
        Done(p, "googleLogin") /\ hist[p].prev # "none" =>
            /\ hist[p].prev = "ok"
            /\ Succeeded(p)
            /\ resp[p].user.id = hist[p].prevId
            /\ hist[p].made = 0
            /\ Cardinality(RecordsWith(EmailOf(req[p]))) = 1

\* C7 as stated: registerWithGoogle on an email that is already stored fails
\* with DuplicateEmail, with no token and no insert; and of two calls in
\* sequence on the same email, not stored before the first, the first succeeds
\* and the second fails with DuplicateEmail.
C7_Original ==
    \A p \in Clients :
        Done(p, "registerWithGoogle") =>
            /\ hist[p].pre /\ Complete(req[p]) =>
                  resp[p] = DuplicateEmail /\ hist[p].made = 0
            /\ hist[p].prev # "none" /\ ~hist[p].prevPre =>
                  hist[p].prev = "ok" /\ resp[p] = DuplicateEmail

Issued(token) == token.fmt = "jwt" /\ token.sig = Hmac(token.payload, JWT_SECRET)

\* C9: a token the server issued is rejected by getCurrentUser with
\* InvalidToken when presented more than 7 days after it was issued, and is
\* accepted when presented less than 7 days after.
C9_ExpiresAfterSevenDays ==
    \A p \in Clients :
        /\ Done(p, "getCurrentUser")
        /\ StartsWithBearer(req[p].auth)
        /\ Issued(BearerToken(req[p].auth))
        => LET token == BearerToken(req[p].auth)
               age   == hist[p].at - token.payload.iat
           IN  /\ age > 7 => resp[p] = InvalidToken
               /\ age < 7 => /\ resp[p].status = 200
                             /\ resp[p].user.id = token.payload.id

\* A token the server issued was presented on its eighth day and turned down;
\* another was presented on its sixth day and taken.
C9_Witness ==
    \E p \in Clients :
        /\ Done(p, "getCurrentUser")
        /\ StartsWithBearer(req[p].auth)
        /\ Issued(BearerToken(req[p].auth))
        /\ hist[p].at - BearerToken(req[p].auth).payload.iat = 8
        /\ resp[p] = InvalidToken

C9_WitnessAccepted ==
    \E p \in Clients :
        /\ Done(p, "getCurrentUser")
        /\ StartsWithBearer(req[p].auth)
        /\ Issued(BearerToken(req[p].auth))
        /\ hist[p].at - BearerToken(req[p].auth).payload.iat = 6
        /\ resp[p].status = 200

\* C10: the user object of every response carries no password hash.
C10_NoPasswordInResponse ==
    \A p \in Clients :
        resp[p].user # Null => resp[p].user.password = Undefined

\* getCurrentUser answered with a user whose stored record has a digest.
C10_Witness ==
    \E p \in Clients :
        /\ Done(p, "getCurrentUser") /\ resp[p].status = 200
        /\ GetUser(resp[p].user.id).password # Undefined
        /\ origin[resp[p].user.id].via = "fallback"

\* The client whose request moves in the step, and the growth of the store by
\* one record.
Actor(p) == <<pc[p], req[p], resp[p]>>' # <<pc[p], req[p], resp[p]>>

Grows == /\ Len(users') = Len(users) + 1
         /\ SubSeq(users', 1, Len(users)) = users

\* The step ends a request of p with a success response, the request being a
\* register, a registerWithGoogle, or a googleLogin on an email that is not
\* stored.
EndsCreating(p) ==
    /\ Actor(p) /\ pc'[p] = "done" /\ resp'[p].status = 200
    /\ \/ req'[p].op \in {"register", "registerWithGoogle"}
       \/ req'[p].op = "googleLogin" /\ GetUserByEmail(EmailOf(req'[p])) = Null

\* C11: a step that ends a register or a registerWithGoogle with success, or
\* a googleLogin with success on an email that was not stored, adds one record
\* to the store and leaves every stored record as it was; every other step
\* (of login, getCurrentUser, googleLogin on a stored email, of any call that
\* is answered with an error) leaves the store unchanged.
C11_Frame ==
    [][IF \E p \in Clients : EndsCreating(p) THEN Grows ELSE users' = users]_vars

\* googleLogin on an email that was not stored added a record to a store that
\* held another, and a login has been answered since.
C11_Witness ==
    /\ Len(users) = 2 /\ origin[2].via \in {"verified", "fallback"}
    /\ Done("c1", "login") /\ Succeeded("c1")

\* C12: every stored record carries a password digest, whichever handler and
\* path made it.
C12_PasswordHashPresent ==
    \A i \in 1..Len(users) :
        /\ users[i].password # Undefined
        /\ users[i].password # Null
        /\ users[i].password.cost = SaltRounds

\* The store holds a record made on the verified path and one made on the
\* fallback path.
C12_Witness ==
    \E i, j \in 1..Len(users) :
        origin[i].via = "verified" /\ origin[j].via = "fallback"

\* the subject ids Google assertions carry
AssertionSubjects == {t.body.sub : t \in IdTokens \ {Null}} \ {""}

GoogleMade(email) ==
    \E i \in RecordsWith(email) : origin[i].via \in {"verified", "fallback"}

\* C13 as stated: login on a record that googleLogin or registerWithGoogle
\* made, with the subject id of a Google assertion as password, fails with
\* InvalidCredentials: the digest stored is that of a random secret.
C13_Original ==
    \A p \in Clients :
        /\ Done(p, "login") /\ hist[p].pre
        /\ GoogleMade(req[p].email)
        /\ req[p].password \in AssertionSubjects
        => resp[p] = InvalidCredentials

MissingToken == Failure(401, "No token provided")

\* C15: getCurrentUser with no Authorization header, or one that does not
\* start with 'Bearer ', fails with MissingToken, having verified no token and
\* called the store for nothing.
C15_MissingToken ==
    \A p \in Clients :
        /\ Done(p, "getCurrentUser")
        /\ Len(req[p].auth) < 2 \/ req[p].auth[1] # "Bearer"
        => resp[p] = MissingToken /\ hist[p].calls = <<>>

\* A header of another scheme was turned down.
C15_Witness ==
    \E p \in Clients :
        /\ Done(p, "getCurrentUser")
        /\ Len(req[p].auth) = 2 /\ req[p].auth[1] = "Basic"
        /\ resp[p] = MissingToken

\* a well-formed token, signed with the server's secret, not expired at time t
WellSignedUnexpired(token, t) ==
    /\ Issued(token)
    /\ t < token.payload.iat + ExpiresInDays

\* C16: getCurrentUser with the header 'Bearer <t>', t not being a well-formed,
\* correctly signed, unexpired token (t empty included), fails with
\* InvalidToken and returns no user.
C16_InvalidToken ==
    \A p \in Clients :
        /\ Done(p, "getCurrentUser")
        /\ Len(req[p].auth) >= 2 /\ req[p].auth[1] = "Bearer"
        /\ ~WellSignedUnexpired(req[p].auth[2], hist[p].at)
        => resp[p] = InvalidToken /\ resp[p].user = Null

\* A token signed with another key was turned down before it expired.
C16_Witness ==
    \E p \in Clients :
        /\ Done(p, "getCurrentUser")
        /\ Len(req[p].auth) >= 2 /\ req[p].auth[1] = "Bearer"
        /\ req[p].auth[2].fmt = "jwt"
        /\ req[p].auth[2].sig.key # JWT_SECRET
        /\ hist[p].at < req[p].auth[2].payload.exp
        /\ resp[p] = InvalidToken

\* 'Bearer ' with nothing after it was turned down.
C16_WitnessEmpty ==
    \E p \in Clients :
        /\ Done(p, "getCurrentUser")
        /\ req[p].auth = <<"Bearer", EmptyToken>>
        /\ resp[p] = InvalidToken

StoreCalls == {"getUserByEmail", "getUserByUsername", "getUser", "createUser"}

\* the positions in the call log of request p of the calls named
CallsTo(p, names) == {i \in 1..Len(hist[p].calls) : hist[p].calls[i].call \in names}

\* the positions of the store calls of request p that raised
RaisedAt(p) == {i \in CallsTo(p, StoreCalls) : ~hist[p].calls[i].ok}

\* C14 as stated: a request in which a store call raised is answered with
\* status 500, in each of the five handlers.
C14_Original ==
    \A p \in Clients :
        pc[p] = "done" /\ RaisedAt(p) # {} => resp[p].status = 500

\* the part of the email before its first '@'
BeforeFirstAt(email) ==
    LET n == CHOOSE k \in 0..Len(email) :
                 /\ \A i \in 1..k : email[i] # At
                 /\ k = Len(email) \/ email[k + 1] = At
    IN  SubSeq(email, 1, n)

\* C17: a successful register without a username stores and returns the part
\* of the email before its first '@' as username; with a username, it stores
\* and returns that username.
C17_UsernameDerived ==
    \A p \in Clients :
        Done(p, "register") /\ Succeeded(p) =>
            LET expected == IF req[p].username = Empty
                            THEN BeforeFirstAt(req[p].email)
                            ELSE req[p].username
            IN  /\ resp[p].user.username = expected
                /\ GetUser(resp[p].user.id).username = expected

\* register without a username succeeded on an address with two '@'.
C17_Witness ==
    \E p \in Clients :
        /\ Done(p, "register") /\ Succeeded(p)
        /\ req[p].username = Empty /\ req[p].email = EmailTwoAts
        /\ GetUser(resp[p].user.id).username = <<"b">>

\* register with a username succeeded.
C17_WitnessSupplied ==
    \E p \in Clients :
        /\ Done(p, "register") /\ Succeeded(p)
        /\ req[p].username = <<"b">> /\ req[p].email = EmailAX
        /\ GetUser(resp[p].user.id).username = <<"b">>

UnsupportedAuthMethod ==
    Failure(400, "This account uses a different authentication method")

\* C18: login on the email of a stored record that has no password fails with
\* UnsupportedAuthMethod (400), which is not the InvalidCredentials (401) that
\* an unknown email or a wrong password gets; no token is issued.
C18_UnsupportedAuthMethod ==
    \A p \in Clients :
        Done(p, "login") /\ Complete(req[p]) =>
            LET user == GetUserByEmail(req[p].email) IN
            /\ user # Null /\ user.password = Undefined =>
                  /\ resp[p] = UnsupportedAuthMethod
                  /\ resp[p].status # InvalidCredentials.status
                  /\ resp[p].token = NoToken
            /\ user = Null => resp[p] = InvalidCredentials
            /\ user # Null /\ user.password # Undefined /\ ~Succeeded(p) =>
                  resp[p] = InvalidCredentials

\* login was tried on the imported record, which has no password.
C18_Witness ==
    \E p \in Clients :
        /\ Done(p, "login") /\ req[p].email = Imported.email
        /\ GetUserByEmail(req[p].email) = Imported
        /\ resp[p] = UnsupportedAuthMethod

\* C19 as stated: the fallback block of googleLogin and registerWithGoogle is
\* entered only in a request whose verifyIdToken call raised; when the
\* verification succeeded, no later failure of the request enters it.
C19_Original ==
    \A p \in Clients :
        CallsTo(p, {"catch (verifyError)"}) # {} =>
            \E i \in CallsTo(p, {"verifyIdToken"}) : ~hist[p].calls[i].ok

\* C20 as stated: a request attempts createUser at most once and looks the
\* account's email up at most once, and makes no store call after a store call
\* of its own has failed.
C20_Original ==
    \A p \in Clients :
        /\ Cardinality(CallsTo(p, {"createUser"})) <= 1
        /\ Cardinality(CallsTo(p, {"getUserByEmail"})) <= 1
        /\ \A i \in RaisedAt(p) : \A j \in CallsTo(p, StoreCalls) : j <= i

\* the status-400 answers the fallback gives to an assertion it cannot use
InvalidAssertion == {Failure(400, "Invalid token format"),
                     Failure(400, "Invalid token content")}

\* C21 as stated: googleLogin with an assertion that Google did not sign, of
\* three segments, whose middle segment decodes to JSON with an email, succeeds
\* with a token for the record with that email, which it creates if absent;
\* with an assertion of another segment count, or whose decoded payload has no
\* email, it fails with status 400 and changes nothing.
C21_Original ==
    \A p \in Clients :
        Done(p, "googleLogin") /\ req[p].idToken # Null
        /\ req[p].idToken.signer # "google" =>
            LET t == req[p].idToken IN
            /\ t.nparts = 3 /\ t.body.json /\ t.body.email # Empty =>
                  /\ Succeeded(p)
                  /\ resp[p].user.email = t.body.email
                  /\ JwtDecoded(resp[p].token).email = t.body.email
                  /\ Cardinality(RecordsWith(t.body.email)) = 1
                  /\ hist[p].made = IF hist[p].pre THEN 0 ELSE 1
            /\ t.nparts # 3 \/ (t.body.json /\ t.body.email = Empty) =>
                  /\ resp[p] \in InvalidAssertion
                  /\ hist[p].made = 0

MissingField      == Failure(400, "Name, email, and password are required")
DuplicateUsername == Failure(400, "Username is already taken")

\* the calls request p has made, by name
CallNames(p) == [i \in 1..Len(hist[p].calls) |-> hist[p].calls[i].call]

\* C24: register fails with MissingField before any store call when name,
\* email or password is absent; otherwise with DuplicateEmail when the email
\* is stored; otherwise, a username being supplied, with DuplicateUsername
\* when that username is stored.  None of these failures reaches the hashing
\* and the insert.
C24_CheckOrder ==
    \A p \in Clients :
        Done(p, "register") =>
            LET r       == req[p]
                missing == r.name = "" \/ r.email = Empty \/ r.password = ""
                taken   == r.username # Empty /\ GetUserByUsername(r.username) # Null
            IN  /\ missing =>
                      resp[p] = MissingField /\ CallNames(p) = <<>>
                /\ ~missing /\ hist[p].pre =>
                      resp[p] = DuplicateEmail /\ CallNames(p) = <<"getUserByEmail">>
                /\ ~missing /\ ~hist[p].pre /\ taken /\ hist[p].made = 0 =>
                      /\ resp[p] = DuplicateUsername
                      /\ CallNames(p) = <<"getUserByEmail", "getUserByUsername">>
                /\ resp[p] \in {MissingField, DuplicateEmail, DuplicateUsername} =>
                      hist[p].made = 0 /\ CallsTo(p, {"createUser"}) = {}

\* register without a name, on an email that is stored, was answered
\* MissingField.
C24_Witness ==
    \E p \in Clients :
        /\ Done(p, "register") /\ req[p].name = "" /\ req[p].email # Empty
        /\ hist[p].pre
        /\ resp[p] = MissingField

\* register on a stored email with a stored username was answered
\* DuplicateEmail.
C24_WitnessBoth ==
    \E p \in Clients :
        /\ Done(p, "register") /\ hist[p].pre
        /\ req[p].username # Empty /\ GetUserByUsername(req[p].username) # Null
        /\ resp[p] = DuplicateEmail

\* register with a stored username on an email that is not stored was answered
\* DuplicateUsername.
C24_WitnessUsername ==
    \E p \in Clients :
        /\ Done(p, "register") /\ ~hist[p].pre
        /\ resp[p] = DuplicateUsername

\* Two googleLogin calls whose assertions carry the same email, in flight
\* together, the email not stored when either arrived.
RacingGoogleLogins(p, q) ==
    /\ p # q
    /\ Done(p, "googleLogin") /\ Done(q, "googleLogin")
    /\ Complete(req[p]) /\ Complete(req[q])
    /\ EmailOf(req[p]) = EmailOf(req[q])
    /\ hist[p].race /\ hist[q].race
    /\ ~hist[p].pre /\ ~hist[q].pre

\* C25 as stated: of concurrent googleLogin calls on the same email, not stored
\* at first, exactly one record with that email comes to be stored, and every
\* call that succeeds returns the id of that record.
C25_Original ==
    \A p, q \in Clients :
        RacingGoogleLogins(p, q) =>
            /\ Cardinality(RecordsWith(EmailOf(req[p]))) = 1
            /\ \A c \in {p, q} :
                  Succeeded(c) => resp[c].user.id = GetUserByEmail(EmailOf(req[p])).id

\* C26: register looks a username up only when the caller supplied one.  With
\* no username supplied and the part of the email before '@' being the
\* username of a stored record, the answer is not DuplicateUsername: the
\* insert is refused by the unique index, the answer is 500 'Error creating
\* user', and no record is made.
C26_DerivedUsernameCollision ==
    \A p \in Clients :
        Done(p, "register") /\ Complete(req[p]) =>
            /\ req[p].username = Empty => CallsTo(p, {"getUserByUsername"}) = {}
            /\ /\ req[p].username = Empty /\ ~hist[p].pre
               /\ \E i \in 1..Len(users) :
                     /\ users[i].username = BeforeFirstAt(req[p].email)
                     /\ users[i].email # req[p].email
               => /\ resp[p] = Failure(500, "Error creating user")
                  /\ resp[p] # DuplicateUsername
                  /\ RecordsWith(req[p].email) = {}
                  /\ hist[p].calls[Len(hist[p].calls)] = [call |-> "createUser", ok |-> FALSE]

\* register of a@y, no username supplied, was refused while a@x holds the
\* username a.
C26_Witness ==
    \E p \in Clients :
        /\ Done(p, "register") /\ req[p].username = Empty
        /\ req[p].email = EmailAY
        /\ GetUserByUsername(<<"a">>) # Null /\ GetUserByUsername(<<"a">>).email = EmailAX
        /\ resp[p] = Failure(500, "Error creating user")

\* C27: with the store filled by register, googleLogin and registerWithGoogle
\* only, no login is answered UnsupportedAuthMethod.
C27_UnsupportedUnreachable ==
    \A p \in Clients : resp[p] # UnsupportedAuthMethod

\* login has been answered on a record that a Google handler made, and the
\* store also holds a record that register made.
C27_Witness ==
    \E p \in Clients :
        /\ Done(p, "login") /\ hist[p].pre /\ GoogleMade(req[p].email)
        /\ resp[p].status \in {200, 401}
        /\ \E i \in 1..Len(users) : origin[i].via = "register"

AuthOps == {"register", "login", "googleLogin", "registerWithGoogle", "getCurrentUser"}

Admins(us) == {i \in 1..Len(us) : us[i].role = "admin"}

\* C22: every record an authentication operation creates has role 'user',
\* whatever the request body or the assertion contains, a 'role' field
\* included; no step of an authentication operation changes the role of a
\* stored record, so the set of admin records is the same before and after it.
C22_RolesFromAuth ==
    [][(\E p \in Clients : Actor(p) /\ req'[p].op \in AuthOps) =>
          /\ Len(users') >= Len(users)
          /\ \A i \in 1..Len(users) : users'[i].role = users[i].role
          /\ \A i \in (Len(users) + 1)..Len(users') : users'[i].role = "user"
          /\ Admins(users') = Admins(users)]_vars

\* register, its body naming the role 'admin', has created a record while an
\* admin record is stored
C22_Witness ==
    \E p \in Clients :
        /\ Done(p, "register") /\ Succeeded(p) /\ hist[p].made = 1
        /\ "role" \in DOMAIN req[p] /\ req[p].role = "admin"
        /\ users[resp[p].user.id].role = "user"
        /\ Admins(users) # {}

\* a Google handler, the assertion naming the role 'admin', has created a record
C22_WitnessGoogle ==
    \E p \in Clients :
        /\ pc[p] = "done" /\ req[p].op \in {"googleLogin", "registerWithGoogle"}
        /\ Succeeded(p) /\ hist[p].made = 1
        /\ req[p].idToken.body.role = "admin"
        /\ users[resp[p].user.id].role = "user"
        /\ Admins(users) # {}

AuthenticationRequired == Failure(401, "Authentication required")
AdminAccessRequired    == Failure(403, "Admin access required")

\* request p carries 'Bearer <t>' with t well signed and unexpired on arrival
Verified(p) ==
    /\ StartsWithBearer(req[p].auth)
    /\ WellSignedUnexpired(BearerToken(req[p].auth), hist[p].at)

\* the content store is changed by a step of a content request of p whose
\* token verified and whose subject the request found stored with role admin
WritesAsAdmin(p) ==
    /\ Actor(p) /\ req[p].op = "content" /\ req[p].method \in Methods
    /\ Verified(p) /\ hist[p].saw = "admin"

\* a content request of p that is over without a header starting 'Bearer ' was
\* answered 401 having called nothing; one whose token verified and whose
\* subject was not found to be an admin was answered 403 having written nothing
RefusedUnlessAdmin(p) ==
    Done(p, "content") =>
        /\ ~StartsWithBearer(req[p].auth) =>
              resp[p] = AuthenticationRequired /\ hist[p].calls = <<>>
        /\ Verified(p) /\ hist[p].saw # "admin" =>
              resp[p] = AdminAccessRequired /\ CallsTo(p, {"write"}) = {}

\* C23: the content store is changed only by a POST, PUT or DELETE content
\* request that carries a Bearer token which verifies and whose subject the
\* request finds stored with role admin; a request without a header starting
\* 'Bearer ' is answered 401 and one with a verified token whose user is
\* missing or no admin is answered 403, the store unchanged in both; so a user
\* whose role went from admin to user is refused with a token still unexpired.
C23_AdminOnlyWrites ==
    /\ [](\A p \in Clients : RefusedUnlessAdmin(p))
    /\ [][content' # content => \E p \in Clients : WritesAsAdmin(p)]_vars

\* an admin created an item, was made a user again, and is refused with the
\* same account's unexpired token
C23_Witness ==
    \E p \in Clients :
        /\ Done(p, "content") /\ Verified(p)
        /\ hist[p].saw = "user" /\ resp[p] = AdminAccessRequired
        /\ Stored > 0

\* a request with no Authorization header, refused with 401
C23_WitnessNoHeader ==
    \E p \in Clients :
        /\ Done(p, "content") /\ req[p].auth = <<>>
        /\ resp[p] = AuthenticationRequired

\* an admin's PUT has replaced an item
C23_WitnessWrite ==
    \E p \in Clients :
        /\ Done(p, "content") /\ req[p].method = "PUT" /\ resp[p].status = 200
        /\ hist[p].saw = "admin"

\* C28: in every admin content route, a request whose header starts 'Bearer '
\* and whose token fails verification (malformed, wrongly signed or expired)
\* is answered with status 500 and the route's 'Failed to ...' message, not
\* with 401 or 403, no user having been looked up and nothing written.
C28_BadTokenIs500 ==
    \A p \in Clients :
        /\ Done(p, "content")
        /\ StartsWithBearer(req[p].auth)
        /\ ~WellSignedUnexpired(BearerToken(req[p].auth), hist[p].at)
        => /\ resp[p].status = 500
           /\ resp[p] = FailedTo(req[p].method, req[p].kind)
           /\ CallNames(p) = <<"jwt.verify">>
           /\ ~hist[p].calls[1].ok

\* an admin's own token, presented after its seven days, answered 500
C28_Witness ==
    \E p \in Clients :
        /\ Done(p, "content") /\ StartsWithBearer(req[p].auth)
        /\ Issued(BearerToken(req[p].auth))
        /\ hist[p].at >= BearerToken(req[p].auth).payload.iat + ExpiresInDays
        /\ users[BearerToken(req[p].auth).payload.id].role = "admin"
        /\ resp[p].status = 500

\* a token signed with another key, answered 500 by a DELETE of gallery items
C28_WitnessForged ==
    \E p \in Clients :
        /\ Done(p, "content") /\ StartsWithBearer(req[p].auth)
        /\ BearerToken(req[p].auth).fmt = "jwt" /\ ~Issued(BearerToken(req[p].auth))
        /\ req[p].method = "DELETE" /\ req[p].kind = "gallery"
        /\ resp[p].status = 500

\* 'Bearer ' followed by something that is no token, answered 500
C28_WitnessMalformed ==
    \E p \in Clients :
        /\ Done(p, "content") /\ StartsWithBearer(req[p].auth)
        /\ BearerToken(req[p].auth) \in {EmptyToken, GarbageToken}
        /\ resp[p].status = 500

RECURSIVE QuantitySum(_)
QuantitySum(lines) ==
    IF lines = <<>> THEN 0 ELSE Head(lines).quantity + QuantitySum(Tail(lines))

RECURSIVE PriceSum(_)
PriceSum(lines) ==
    IF lines = <<>> THEN 0
    ELSE Head(lines).product.price * Head(lines).quantity + PriceSum(Tail(lines))

\* C29: after any sequence of addToCart, removeFromCart, updateQuantity and
\* clearCart, once the cart effect has run, cartCount is the sum of the
\* quantities of the lines, cartTotal the sum of product.price times quantity,
\* and the 'cart' entry of localStorage the serialization of the cart (which
\* parses back to it); after clearCart these are 0, 0 and the empty list.
C29_DerivedState ==
    mounted /\ pending = 0 =>
        /\ cartCount = QuantitySum(cart)
        /\ cartTotal = PriceSum(cart)
        /\ localStorage = SetItem(JsonStringify(cart))
        /\ JsonParse(localStorage.lines) = cart
        /\ lastCall.fn = "clearCart" =>
              /\ cart = <<>> /\ cartCount = 0 /\ cartTotal = 0
              /\ localStorage = SetItem(<<>>)

\* three lines of two products with different quantities, the last call an
\* updateQuantity, the effect run
C29_Witness ==
    /\ mounted /\ pending = 0 /\ Len(cart) = 3
    /\ lastCall.fn = "updateQuantity"
    /\ \E i, j \in 1..Len(cart) :
          /\ cart[i].product.id # cart[j].product.id
          /\ cart[i].quantity # cart[j].quantity
    /\ cartCount = 6 /\ cartTotal = 15

\* products were added, the cart was cleared, the effect has run
C29_WitnessCleared ==
    /\ mounted /\ pending = 0 /\ lastCall.fn = "clearCart"
    /\ cartCount = 0 /\ localStorage = SetItem(<<>>) /\ isCartOpen

\* C30: updateQuantity(productId, q) with q <= 0 does exactly what
\* removeFromCart(productId) does, taking out every line of that product and
\* touching nothing else; with q > 0 it sets the quantity of every line of that
\* product to q, leaves the other lines as they are, and keeps the number of
\* lines.
C30_UpdateQuantity ==
    [][LET id == lastCall'.productId
           q  == lastCall'.quantity
           without == SelectSeq(cart, LAMBDA item : item.product.id # id)
       IN  /\ lastCall' # lastCall /\ lastCall'.fn = "removeFromCart" =>
                 /\ cart' = without
                 /\ UNCHANGED <<isCartOpen, cartTotal, cartCount, localStorage>>
           /\ lastCall' # lastCall /\ lastCall'.fn = "updateQuantity" =>
                 /\ q <= 0 => cart' = without
                 /\ q > 0  =>
                       /\ Len(cart') = Len(cart)
                       /\ \A i \in 1..Len(cart) :
                             cart'[i] = IF cart[i].product.id = id
                                        THEN [cart[i] EXCEPT !.quantity = q]
                                        ELSE cart[i]
                 /\ UNCHANGED <<isCartOpen, cartTotal, cartCount, localStorage>>]_vars

\* updateQuantity(id, 3) has set two lines of one product to 3 and left the
\* line of the other product as it was
C30_Witness ==
    /\ lastCall.fn = "updateQuantity" /\ lastCall.quantity = 3 /\ Len(cart) = 3
    /\ Cardinality({i \in 1..3 : cart[i].product.id = lastCall.productId}) = 2
    /\ \A i \in 1..3 : cart[i].quantity = 3 <=> cart[i].product.id = lastCall.productId
    /\ localStorage.entry = "json" /\ Len(localStorage.lines) = 3
    /\ \A i \in 1..3 : localStorage.lines[i].quantity # 3

\* updateQuantity(id, 0) has taken the lines of one product out of a cart that
\* held both products
C30_WitnessRemove ==
    /\ lastCall.fn = "updateQuantity" /\ lastCall.quantity = 0 /\ pending = 1
    /\ cart # <<>>
    /\ \A i \in 1..Len(cart) : cart[i].product.id # lastCall.productId
    /\ localStorage.entry = "json" /\ Len(localStorage.lines) > Len(cart)
    /\ \E i \in 1..Len(localStorage.lines) :
          localStorage.lines[i].product.id = lastCall.productId

====
